---- MODULE Spec2Model ----
(***************************************************************************)
(* LinoEnv (src/rust/src/lib.rs): an in-memory multimap from key to an     *)
(* ordered sequence of values, loaded from and saved to a line-oriented    *)
(* text file whose records are `<key>: <value>`.                           *)
(*                                                                         *)
(* A string is a sequence of one-character strings; a store is a function  *)
(* from the keys present to their value sequences; an Option<String> is a  *)
(* sequence of no or one string.                                           *)
(***************************************************************************)
EXTENDS Naturals, Sequences, FiniteSets, TLC

\* ------------------------------------------------------------- characters

\* The characters the code tells apart: the two characters of the separator,
\* the comment mark, the line feed BufRead::lines splits at, the carriage
\* return it strips before a line feed, and an ordinary character.
Alphabet == {"a", ":", " ", "#", "\n", "\r"}

\* str::trim strips the characters with the White_Space property.
IsWhitespace(c) == c \in {" ", "\n", "\r"}

\* All strings over the alphabet A of length n, and of length at most n.
StrOfLen(A, n) == [1..n -> A]
StrUpTo(A, n) == UNION {StrOfLen(A, i) : i \in 0..n}

\* ---------------------------------------------------------------- strings

\* str::trim_start / str::trim_end / str::trim, as line.trim() uses them.
RECURSIVE TrimStart(_)
TrimStart(s) ==
    IF s # <<>> /\ IsWhitespace(Head(s)) THEN TrimStart(Tail(s)) ELSE s

RECURSIVE TrimEnd(_)
TrimEnd(s) ==
    IF s # <<>> /\ IsWhitespace(s[Len(s)])
    THEN TrimEnd(SubSeq(s, 1, Len(s) - 1))
    ELSE s

Trim(s) == TrimEnd(TrimStart(s))

\* No line is taken for a comment.
NeverComment(s) == FALSE

\* trimmed.starts_with('#')
StartsWithHash(s) == s # <<>> /\ Head(s) = "#"

\* line.find(": ") scanning from position i: the 1-based position of the
\* first ": " at or after i, 0 for None.
RECURSIVE FindFrom(_, _)
FindFrom(s, i) ==
    IF i + 1 > Len(s) THEN 0
    ELSE IF s[i] = ":" /\ s[i + 1] = " " THEN i
    ELSE FindFrom(s, i + 1)

\* line.rfind(": "): the position of the last ": ", 0 for None.
FindLast(s) ==
    LET at == {p \in 1..Len(s) : p + 1 <= Len(s) /\ s[p] = ":" /\ s[p + 1] = " "}
    IN  IF at = {} THEN 0 ELSE CHOOSE p \in at : \A q \in at : q <= p

Find(s) == FindFrom(s, 1)

\* BufRead::lines: the content cut at every line feed; the line feed is
\* dropped, and one carriage return right before it; a last line without a
\* line feed is kept as it is; an empty rest yields no further line.
RECURSIVE SplitLines(_, _)
SplitLines(rest, cur) ==
    IF rest = <<>> THEN (IF cur = <<>> THEN <<>> ELSE <<cur>>)
    ELSE IF Head(rest) = "\n"
         THEN <<(IF cur # <<>> /\ cur[Len(cur)] = "\r"
                 THEN SubSeq(cur, 1, Len(cur) - 1)
                 ELSE cur)>>
              \o SplitLines(Tail(rest), <<>>)
         ELSE SplitLines(Tail(rest), Append(cur, Head(rest)))

Lines(content) == SplitLines(content, <<>>)

\* ------------------------------------------------------------------ store

\* HashMap::new()
EmptyData == <<>>

\* An add that puts the value in front of the values of the key.
PushFront(d, k, v) ==
    [x \in DOMAIN d \cup {k} |->
        IF x = k THEN (IF k \in DOMAIN d THEN <<v>> \o d[k] ELSE <<v>>)
        ELSE d[x]]

\* self.data.entry(key).or_default().push(value)
Push(d, k, v) ==
    [x \in DOMAIN d \cup {k} |->
        IF x = k THEN (IF k \in DOMAIN d THEN Append(d[k], v) ELSE <<v>>)
        ELSE d[x]]

\* A set that keeps the first value of a key that is present.
InsertIfAbsent(d, k, v) ==
    [x \in DOMAIN d \cup {k} |->
        IF x = k /\ k \notin DOMAIN d THEN <<v>>
        ELSE IF x = k THEN <<d[k][1]>>
        ELSE d[x]]

\* self.data.insert(key, vec![value])
Insert(d, k, v) ==
    [x \in DOMAIN d \cup {k} |-> IF x = k THEN <<v>> ELSE d[x]]

\* A delete that drops the last value of the key only.
RemoveLast(d, k) ==
    [x \in (DOMAIN d \ {k}) \cup {y \in DOMAIN d : Len(d[y]) > 1} |->
        IF x = k THEN SubSeq(d[k], 1, Len(d[k]) - 1) ELSE d[x]]

\* A delete that empties the vector of the key and leaves the key.
RemoveValuesOnly(d, k) == [x \in DOMAIN d |-> IF x = k THEN <<>> ELSE d[x]]

\* self.data.remove(key)
Remove(d, k) == [x \in DOMAIN d \ {k} |-> d[x]]

\* LinoEnv::get: the last value of the key, None for an absent key or an
\* empty vector.
Get(d, k) ==
    IF k \in DOMAIN d
    THEN (IF d[k] # <<>> THEN <<d[k][Len(d[k])]>> ELSE <<>>)
    ELSE <<>>

\* LinoEnv::get_all
GetAll(d, k) == IF k \in DOMAIN d THEN d[k] ELSE <<>>

\* LinoEnv::has
Has(d, k) == k \in DOMAIN d /\ d[k] # <<>>

\* LinoEnv::keys, as a set: the order of the vector is the map's.
KeysOf(d) == DOMAIN d

\* A snapshot that maps each key to its first value.
ToHashMapFirst(d) == [k \in {x \in DOMAIN d : d[x] # <<>>} |-> d[k][1]]

\* LinoEnv::to_hash_map: each key whose vector has a last value, mapped to it.
ToHashMap(d) == [k \in {x \in DOMAIN d : d[x] # <<>>} |-> d[k][Len(d[k])]]

\* The number of values the store holds, over all keys.
RECURSIVE SumLen(_, _)
SumLen(d, S) ==
    IF S = {} THEN 0
    ELSE LET k == CHOOSE x \in S : TRUE IN Len(d[k]) + SumLen(d, S \ {k})

TotalValues(d) == SumLen(d, DOMAIN d)

\* ------------------------------------------------------------------- read

\* The body of the loop of read for one line: skip a blank line or a
\* comment, split at the first ": ", ignore a line without it.
ParseLine(d, line) ==
    LET trimmed == Trim(line)
        sep == Find(line)
    IN  IF trimmed = <<>> \/ StartsWithHash(trimmed) THEN d
        ELSE IF sep # 0
             THEN Push(d, Trim(SubSeq(line, 1, sep - 1)),
                          SubSeq(line, sep + 2, Len(line)))
             ELSE d

\* The loop of read over the first n lines, from the store d.
RECURSIVE ParseLines(_, _, _)
ParseLines(d, lines, n) ==
    IF n = 0 THEN d
    ELSE ParseLine(ParseLines(d, lines, n - 1), lines[n])

\* ------------------------------------------------------------------ write

\* A line written without the space of the separator.
RenderLineColonOnly(k, v) == k \o <<":">> \o v \o <<"\n">>

\* writeln!(file, "{key}: {value}")
RenderLine(k, v) == k \o <<":", " ">> \o v \o <<"\n">>

\* The inner loop of write: the lines of one key, in the order of its values.
RECURSIVE RenderValues(_, _)
RenderValues(k, vs) ==
    IF vs = <<>> THEN <<>>
    ELSE RenderLine(k, Head(vs)) \o RenderValues(k, Tail(vs))

\* The outer loop of write, the keys iterated in the order `order`.
RECURSIVE Render(_, _)
Render(d, order) ==
    IF order = <<>> THEN <<>>
    ELSE RenderValues(Head(order), d[Head(order)]) \o Render(d, Tail(order))

\* The orders in which a HashMap may iterate the keys S.
Orders(S) ==
    {o \in [1..Cardinality(S) -> S] : \A i, j \in DOMAIN o : o[i] = o[j] => i = j}

\* A write that opens the file for append: the old content stays in front.
WriteOutcomesAppend(d, f) ==
    {[file |-> f, res |-> "err"]}
    \cup {[file |-> [exists |-> TRUE, content |-> f.content \o Render(d, o)],
           res |-> "ok"] : o \in Orders(DOMAIN d)}

\* What write leaves in the file and returns: Err with the file as it was
\* when File::create fails; otherwise the file is truncated and the lines go
\* out in one of the orders the map may iterate its keys in: Ok with all of
\* them, Err with a proper prefix of their bytes when a write fails midway.
WriteOutcomes(d, f) ==
    {[file |-> f, res |-> "err"]}
    \cup UNION {
        LET full == Render(d, o)
        IN  {[file |-> [exists |-> TRUE, content |-> SubSeq(full, 1, n)],
              res |-> IF n = Len(full) THEN "ok" ELSE "err"] : n \in 0..Len(full)}
        : o \in Orders(DOMAIN d)}

\* A read that does not clear the store.
NotCleared(d) == d

\* self.data.clear()
Cleared(d) == EmptyData

\* A read without the test of path.exists(): the open of a missing file fails.
ReadOutcomesOpenAlways(d, f) ==
    LET lines == Lines(f.content)
    IN  {[data |-> Cleared(d), res |-> "err"]}
        \cup (IF f.exists
              THEN {[data |-> ParseLines(Cleared(d), lines, Len(lines)), res |-> "ok"]}
              ELSE {})

\* What read leaves in the store and returns: Ok with the cleared store
\* when the path does not exist; Err with the cleared store when the open
\* fails; Err with the lines parsed so far when reading the n-th line fails
\* (n - 1 lines were pushed; n may be one past the last line); Ok with every
\* line parsed otherwise.
ReadOutcomes(d, f) ==
    LET cleared == Cleared(d)
        lines == Lines(f.content)
    IN  IF ~f.exists THEN {[data |-> cleared, res |-> "ok"]}
        ELSE {[data |-> cleared, res |-> "err"]}
             \cup {[data |-> ParseLines(cleared, lines, n - 1), res |-> "err"]
                   : n \in 1..(Len(lines) + 1)}
             \cup {[data |-> ParseLines(cleared, lines, Len(lines)), res |-> "ok"]}

\* ------------------------------------------------------------------ state

\* The keys and values the callers of the store pass to add, set and delete.
Keys == {<<"a">>, <<"b">>}
Values == {<<>>, <<"x">>}

\* The store never holds more than MaxEntries values in the state machine.
MaxEntries == 3

\* The files read are at most MaxFileLen characters long.
MaxFileLen == 7

\* The stores written and read back render to at most MaxRoundTripLen
\* characters.
MaxRoundTripLen == 7

VARIABLES
    data,       \* LinoEnv::data of the store in hand
    file,       \* the file at LinoEnv::file_path: [exists, content]
    op,         \* the last operation called
    key,        \* its `reference` argument
    value,      \* its `value` argument
    res,        \* "ok" or "err": what it returned
    pre,        \* data before the last operation
    written     \* the store the file was last written from, while it holds

vars == <<data, file, op, key, value, res, pre, written>>

NoFile == [exists |-> FALSE, content |-> <<>>]
NoSnapshot == [valid |-> FALSE, data |-> EmptyData]

\* LinoEnv::new(path): an empty store, no I/O.
InitStore ==
    /\ data = EmptyData
    /\ op = "new"
    /\ key = <<>>
    /\ value = <<>>
    /\ res = "ok"
    /\ pre = EmptyData
    /\ written = NoSnapshot

Init ==
    /\ InitStore
    /\ file = NoFile

\* Another LinoEnv::new on the same path.
New ==
    /\ data' = EmptyData
    /\ op' = "new" /\ key' = <<>> /\ value' = <<>> /\ res' = "ok"
    /\ pre' = data
    /\ UNCHANGED <<file, written>>

Add(k, v) ==
    /\ TotalValues(data) < MaxEntries
    /\ data' = Push(data, k, v)
    /\ op' = "add" /\ key' = k /\ value' = v /\ res' = "ok"
    /\ pre' = data
    /\ UNCHANGED <<file, written>>

Set(k, v) ==
    /\ TotalValues(Insert(data, k, v)) <= MaxEntries
    /\ data' = Insert(data, k, v)
    /\ op' = "set" /\ key' = k /\ value' = v /\ res' = "ok"
    /\ pre' = data
    /\ UNCHANGED <<file, written>>

Delete(k) ==
    /\ data' = Remove(data, k)
    /\ op' = "delete" /\ key' = k /\ value' = <<>> /\ res' = "ok"
    /\ pre' = data
    /\ UNCHANGED <<file, written>>

Read ==
    /\ \E out \in ReadOutcomes(data, file) :
        /\ data' = out.data
        /\ res' = out.res
    /\ op' = "read" /\ key' = <<>> /\ value' = <<>>
    /\ pre' = data
    /\ UNCHANGED <<file, written>>

Write ==
    /\ \E out \in WriteOutcomes(data, file) :
        /\ file' = out.file
        /\ res' = out.res
        /\ written' = IF out.res = "ok" THEN [valid |-> TRUE, data |-> data]
                      ELSE IF out.file = file THEN written
                      ELSE NoSnapshot
    /\ op' = "write" /\ key' = <<>> /\ value' = <<>>
    /\ pre' = data
    /\ UNCHANGED data

\* A call of to_hash_map(&self): the store is read, not written.
CallToHashMap ==
    /\ op' = "to_hash_map" /\ key' = <<>> /\ value' = <<>> /\ res' = "ok"
    /\ pre' = data
    /\ UNCHANGED <<data, file, written>>

Next ==
    \/ New
    \/ \E k \in Keys, v \in Values : Add(k, v)
    \/ \E k \in Keys, v \in Values : Set(k, v)
    \/ \E k \in Keys : Delete(k)
    \/ Read
    \/ Write
    \/ CallToHashMap

Spec == Init /\ [][Next]_vars

\* -------------------------------------------------- read_lino_env on a file

\* The file handed to read: none, or any content over the alphabet of at
\* most MaxFileLen characters.
InitParse ==
    /\ InitStore
    /\ \/ file = NoFile
       \/ \E n \in 0..MaxFileLen : \E c \in StrOfLen(Alphabet, n) :
             file = [exists |-> TRUE, content |-> c]

\* read_lino_env: LinoEnv::new(file_path), then read, once.
ReadLinoEnv == op = "new" /\ Read

NextParse == ReadLinoEnv

SpecParse == InitParse /\ [][NextParse]_vars

\* ------------------------------------------------- write, then read afresh

\* The (key, value) pairs whose line `<key>: <value>\n` is at most b
\* characters long.
EntriesWithin(b) ==
    UNION {StrOfLen(Alphabet, p[1]) \X StrOfLen(Alphabet, p[2]) :
           p \in {q \in (0..b) \X (0..b) : q[1] + q[2] + 3 <= b}}

\* The stores add builds whose lines are, together, at most b characters.
RECURSIVE StoresWithin(_)
StoresWithin(b) ==
    {EmptyData} \cup UNION {
        {Push(m, e[1], e[2]) : m \in StoresWithin(b - (Len(e[1]) + Len(e[2]) + 3))}
        : e \in EntriesWithin(b)}

\* A store built by add calls, the file not yet there.
InitRoundTrip ==
    /\ data \in StoresWithin(MaxRoundTripLen)
    /\ op = "build"
    /\ key = <<>>
    /\ value = <<>>
    /\ res = "ok"
    /\ pre = EmptyData
    /\ written = NoSnapshot
    /\ file = NoFile

\* env1.write(); env2 = LinoEnv::new(same path); env2.read()
RoundTripWrite == op = "build" /\ Write
RoundTripNew == op = "write" /\ res = "ok" /\ New
RoundTripRead == op = "new" /\ Read

NextRoundTrip == RoundTripWrite \/ RoundTripNew \/ RoundTripRead

SpecRoundTrip == InitRoundTrip /\ [][NextRoundTrip]_vars

\* ------------------------------------------------------ write over a file

\* What the path holds before the write: nothing, or an older file.
OlderFiles ==
    {NoFile, [exists |-> TRUE, content |-> <<"a", ":", " ", "a", "\n", "#">>]}

\* A store built by add calls, bound to a path that may hold an older file.
InitWrite ==
    /\ data \in StoresWithin(MaxRoundTripLen)
    /\ op = "build"
    /\ key = <<>>
    /\ value = <<>>
    /\ res = "ok"
    /\ pre = EmptyData
    /\ written = NoSnapshot
    /\ file \in OlderFiles

\* env.write(), once.
WriteOnce == op = "build" /\ Write

NextWrite == WriteOnce

SpecWrite == InitWrite /\ [][NextWrite]_vars

\* ----------------------------------------------- the file format, restated

\* The separator ": " stands at position p of the line.
SepAt(line, p) == p + 1 <= Len(line) /\ line[p] = ":" /\ line[p + 1] = " "

HasSep(line) == \E p \in 1..Len(line) : SepAt(line, p)

\* The position of the first separator of a line that has one.
FirstSep(line) ==
    CHOOSE p \in 1..Len(line) :
        SepAt(line, p) /\ \A q \in 1..(p - 1) : ~SepAt(line, q)

\* A line of whitespace only, the empty line included.
IsBlank(line) == \A i \in 1..Len(line) : IsWhitespace(line[i])

\* A line whose first character that is not whitespace is '#'.
IsComment(line) ==
    \E i \in 1..Len(line) :
        line[i] = "#" /\ \A j \in 1..(i - 1) : IsWhitespace(line[j])

\* The text s without the whitespace around it.
Stripped(s) ==
    IF IsBlank(s) THEN <<>>
    ELSE LET solid == {i \in 1..Len(s) : ~IsWhitespace(s[i])}
             first == CHOOSE i \in solid : \A j \in solid : i <= j
             last == CHOOSE i \in solid : \A j \in solid : j <= i
         IN  SubSeq(s, first, last)

\* A key-value line: not blank, no comment, with a separator.
IsEntry(line) == ~IsBlank(line) /\ ~IsComment(line) /\ HasSep(line)

EntryKey(line) == Stripped(SubSeq(line, 1, FirstSep(line) - 1))
EntryValue(line) == SubSeq(line, FirstSep(line) + 2, Len(line))

\* The values the key-value lines of `lines` give to key k, in file order.
ValuesInFile(lines, k) ==
    LET mine == SelectSeq(lines, LAMBDA l : IsEntry(l) /\ EntryKey(l) = k)
    IN  [i \in 1..Len(mine) |-> EntryValue(mine[i])]

\* The keys the key-value lines of `lines` name.
KeysInFile(lines) ==
    {EntryKey(lines[i]) : i \in {j \in 1..Len(lines) : IsEntry(lines[j])}}

\* The store the file format assigns to a file.
StoreOfFile(f) ==
    LET lines == Lines(f.content)
    IN  [k \in KeysInFile(lines) |-> ValuesInFile(lines, k)]

\* ------------------------------------------------------------------ claims

NoLineFeed(s) == \A i \in 1..Len(s) : s[i] # "\n"
NoLineBreak(s) == \A i \in 1..Len(s) : s[i] \notin {"\n", "\r"}

\* A key that `<key>: <value>` gives back: no whitespace around it, no '#'
\* in front, no ": " and no line feed inside.
PlainKey(k) ==
    /\ NoLineFeed(k)
    /\ ~HasSep(k)
    /\ k # <<>> => /\ ~IsWhitespace(k[1])
                   /\ ~IsWhitespace(k[Len(k)])
                   /\ k[1] # "#"

\* A value that `<key>: <value>` gives back: no line feed inside, no
\* carriage return at its end.
PlainValue(v) == NoLineFeed(v) /\ (v # <<>> => v[Len(v)] # "\r")

\* The fresh store that has read the file holds every key of m as m does.
ReadBack(m) ==
    \A k \in DOMAIN m :
        /\ GetAll(data, k) = m[k]
        /\ Get(data, k) = <<m[k][Len(m[k])]>>

\* A fresh store has read, without error, the file another store wrote.
RoundTripDone == op = "read" /\ res = "ok" /\ written.valid

\* C1 as claimed: for any mapping of keys to non-empty value sequences whose
\* values hold no newline, write and then read on a fresh store of the same
\* path give get_all(k) equal to the sequence and get(k) equal to its last
\* element, for every key k.  (Newline is read here as line feed or carriage
\* return, and the keys are kept free of both as well.)
C1_RoundTripAnyKey ==
    (RoundTripDone
     /\ \A k \in DOMAIN written.data :
            /\ NoLineBreak(k)
            /\ \A i \in 1..Len(written.data[k]) : NoLineBreak(written.data[k][i]))
        => ReadBack(written.data)

\* C1 amended: the round trip holds for the mappings whose keys have no
\* whitespace around them, do not start with '#' and hold neither ": " nor a
\* line feed, and whose values hold no line feed and do not end with a
\* carriage return.
C1_RoundTripPlain ==
    (RoundTripDone
     /\ \A k \in DOMAIN written.data :
            /\ PlainKey(k)
            /\ \A i \in 1..Len(written.data[k]) : PlainValue(written.data[k][i]))
        => ReadBack(written.data)

\* C1 witness: a key with two different values went through the round trip.
C1_Witness ==
    /\ RoundTripDone
    /\ \E k \in DOMAIN written.data :
        /\ PlainKey(k)
        /\ Len(written.data[k]) = 2
        /\ written.data[k][1] # written.data[k][2]
        /\ PlainValue(written.data[k][1])
        /\ PlainValue(written.data[k][2])
        /\ data = written.data

\* C2: in every state reached by add, set, delete, read and write, every key
\* present has at least one value, so has(k) holds of exactly the keys that
\* keys() returns.
C2_KeysHaveValues ==
    /\ \A k \in DOMAIN data : Len(data[k]) >= 1
    /\ {k \in Keys \cup DOMAIN data \cup DOMAIN pre : Has(data, k)} = KeysOf(data)

\* C2 witness: delete has removed one of two keys, the other stays with
\* its values.
C2_Witness ==
    /\ op = "delete"
    /\ key \in DOMAIN pre
    /\ ~Has(data, key)
    /\ \E k \in DOMAIN data : Has(data, k)

\* A read by a fresh store of a file that exists has returned Ok.
ParsedFile == op = "read" /\ res = "ok" /\ file.exists

\* C3: every line that is not blank, no comment and holds ": " is split at
\* the first ": "; the trimmed text before it is the key, the text after it,
\* unmodified, is appended to the values of that key, so the lines of one key
\* accumulate in file order.
C3_SplitAtFirstSeparator ==
    ParsedFile =>
        LET lines == Lines(file.content)
        IN  /\ DOMAIN data = KeysInFile(lines)
            /\ \A k \in DOMAIN data : data[k] = ValuesInFile(lines, k)

\* C3 witness: two lines of one key, with different values, were read; the
\* key was trimmed or a value holds a further ": ".
C3_Witness ==
    /\ ParsedFile
    /\ \E k \in DOMAIN data : Len(data[k]) = 2 /\ data[k][1] # data[k][2]
    /\ \E i \in 1..Len(Lines(file.content)) :
          LET l == Lines(file.content)[i]
          IN  IsEntry(l) /\ (IsWhitespace(l[1]) \/ HasSep(EntryValue(l)))

\* C4: a blank line, a line whose first character after whitespace is '#'
\* (with or without ": ") and a line without ": " add nothing to the store:
\* it holds as many values as the file has key-value lines, and none when
\* the file has no such line.
C4_SkippedLinesAddNothing ==
    ParsedFile =>
        LET lines == Lines(file.content)
            entries == {i \in 1..Len(lines) : IsEntry(lines[i])}
        IN  /\ TotalValues(data) = Cardinality(entries)
            /\ entries = {} => data = EmptyData /\ KeysOf(data) = {}

\* C4 witness: a file of a comment that holds ": ", a blank line and a line
\* without ": " was read into an empty store.
C4_Witness ==
    /\ ParsedFile
    /\ data = EmptyData
    /\ LET lines == Lines(file.content)
       IN  /\ \E i \in 1..Len(lines) : IsComment(lines[i]) /\ HasSep(lines[i])
           /\ \E i \in 1..Len(lines) : IsBlank(lines[i])
           /\ \E i \in 1..Len(lines) :
                 ~IsBlank(lines[i]) /\ ~IsComment(lines[i]) /\ ~HasSep(lines[i])

\* C5: a successful read replaces the whole store: what it holds afterwards
\* is what the file holds, whatever add, set, delete and read did before;
\* a key or value that was in memory and is not in the file is gone.
C5_ReadReplacesState ==
    (op = "read" /\ res = "ok") =>
        /\ data = StoreOfFile(file)
        /\ \A k \in DOMAIN pre : GetAll(data, k) = GetAll(StoreOfFile(file), k)

\* C5 witness: a read of a file with entries has dropped a key that was in
\* memory only, and values of a key the file holds too.
C5_Witness ==
    /\ op = "read" /\ res = "ok" /\ file.exists
    /\ \E k \in DOMAIN pre : k \notin DOMAIN data
    /\ \E k \in DOMAIN pre : k \in DOMAIN data /\ Len(pre[k]) > Len(data[k])

\* C6: read on a path that does not exist returns Ok, leaves the store empty
\* whatever it held (keys() empty, get(k) nothing for every k) and does not
\* create the file.
C6_ReadOfMissingFile ==
    [][(op' = "read" /\ ~file.exists) =>
          /\ res' = "ok"
          /\ KeysOf(data') = {}
          /\ \A k \in Keys \cup DOMAIN data : Get(data', k) = <<>>
          /\ ~file'.exists]_vars

\* C6 witness: a store that held values has read a path that does not exist.
C6_Witness ==
    /\ op = "read" /\ res = "ok" /\ ~file.exists
    /\ pre # EmptyData
    /\ data = EmptyData

\* C7 as claimed: when read returns an I/O error the store holds either what
\* it held before the call or the complete parse of the file, never an
\* emptied store or the entries of a prefix of the file.
C7_FailedReadIsAtomic ==
    (op = "read" /\ res = "err") => data \in {pre, StoreOfFile(file)}

\* The frame of an operation on `key`: every other key has the values it had.
OtherKeysUnchanged ==
    \A k \in (Keys \cup DOMAIN pre \cup DOMAIN data) \ {key} :
        /\ GetAll(data, k) = GetAll(pre, k)
        /\ Has(data, k) = Has(pre, k)

\* C8: set(k, v), whatever came before, leaves get_all(k) = [v] and
\* get(k) = v, leaves every other key as it was, and a second set(k, v)
\* changes nothing.
C8_SetReplaces ==
    op = "set" =>
        /\ GetAll(data, key) = <<value>>
        /\ Get(data, key) = <<value>>
        /\ OtherKeysUnchanged
        /\ Insert(data, key, value) = data

\* C8 witness: set on a key that had several values, another key present.
C8_Witness ==
    /\ op = "set"
    /\ key \in DOMAIN pre /\ Len(pre[key]) >= 2
    /\ \E k \in DOMAIN data : k # key

\* C9: add(k, v) appends: get_all(k) is the previous get_all(k) followed by v,
\* get(k) is v, every other key is unchanged; and in every state get(k) is
\* the last element of get_all(k), or nothing when k is absent.
C9_AddAppends ==
    /\ op = "add" =>
        /\ GetAll(data, key) = GetAll(pre, key) \o <<value>>
        /\ Get(data, key) = <<value>>
        /\ OtherKeysUnchanged
    /\ \A k \in Keys \cup DOMAIN data :
        Get(data, k) = IF k \in DOMAIN data
                       THEN <<GetAll(data, k)[Len(GetAll(data, k))]>>
                       ELSE <<>>

\* C9 witness: the third add on a key, its values not all the same.
C9_Witness ==
    /\ op = "add"
    /\ Len(GetAll(pre, key)) = 2
    /\ Len(GetAll(data, key)) = 3
    /\ data[key][2] # data[key][3]

\* C10: delete(k) removes k with all its values (has(k) false, get(k)
\* nothing, get_all(k) empty) whether k had one value, several or none; on an
\* absent key it changes nothing and raises no error; every other key is
\* unchanged.
C10_DeleteRemovesKey ==
    op = "delete" =>
        /\ ~Has(data, key)
        /\ Get(data, key) = <<>>
        /\ GetAll(data, key) = <<>>
        /\ key \notin KeysOf(data)
        /\ OtherKeysUnchanged
        /\ key \notin DOMAIN pre => data = pre
        /\ res = "ok"

\* C10 witness: delete of a key that had several values, another key present.
C10_Witness ==
    /\ op = "delete"
    /\ key \in DOMAIN pre /\ Len(pre[key]) >= 2
    /\ \E k \in DOMAIN data : k # key

\* C11: in every state to_hash_map returns a mapping whose keys are exactly
\* keys() and that maps each key k to get(k), the last value of k: a key with
\* several values collapses to the last one added, a key with one value maps
\* to it; the call does not change the store.
C11_ToHashMapLastValues ==
    /\ DOMAIN ToHashMap(data) = KeysOf(data)
    /\ \A k \in KeysOf(data) :
        /\ <<ToHashMap(data)[k]>> = Get(data, k)
        /\ ToHashMap(data)[k] = GetAll(data, k)[Len(GetAll(data, k))]
    /\ op = "to_hash_map" => data = pre /\ res = "ok"

\* C11 witness: to_hash_map was called on a store with a key of two different
\* values and a key of one value.
C11_Witness ==
    /\ op = "to_hash_map"
    /\ \E k \in DOMAIN data : Len(data[k]) = 2 /\ data[k][1] # data[k][2]
    /\ \E k \in DOMAIN data : Len(data[k]) = 1

\* The content cut at every line feed, the line feeds dropped; what follows
\* the last line feed is a line when it is not empty.
RECURSIVE CutAtLineFeeds(_, _)
CutAtLineFeeds(rest, cur) ==
    IF rest = <<>> THEN (IF cur = <<>> THEN <<>> ELSE <<cur>>)
    ELSE IF Head(rest) = "\n" THEN <<cur>> \o CutAtLineFeeds(Tail(rest), <<>>)
    ELSE CutAtLineFeeds(Tail(rest), Append(cur, Head(rest)))

\* The text of the lines, each followed by a line feed.
RECURSIVE Joined(_)
Joined(lines) ==
    IF lines = <<>> THEN <<>>
    ELSE Head(lines) \o <<"\n">> \o Joined(Tail(lines))

\* The line `<key>: <value>`.
RecordLine(k, v) == k \o <<":", " ">> \o v

\* The values of the store d, each named by its key and its position.
Slots(d) == UNION {{<<k, i>> : i \in 1..Len(d[k])} : k \in DOMAIN d}

\* The lines are, one for one, the lines `<key>: <value>` of the values of
\* d, those of one key in the order of its values.
OneLinePerValue(lines, d) ==
    \E f \in [1..Len(lines) -> Slots(d)] :
        /\ \A s \in Slots(d) : \E j \in 1..Len(lines) : f[j] = s
        /\ \A j1, j2 \in 1..Len(lines) : f[j1] = f[j2] => j1 = j2
        /\ \A j \in 1..Len(lines) : lines[j] = RecordLine(f[j][1], d[f[j][1]][f[j][2]])
        /\ \A j1, j2 \in 1..Len(lines) :
              (j1 < j2 /\ f[j1][1] = f[j2][1]) => f[j1][2] < f[j2][2]

\* What C12 says of the file and the store after a successful write.
WrittenAsClaimed ==
    /\ file.exists
    /\ file.content = Joined(CutAtLineFeeds(file.content, <<>>))
    /\ OneLinePerValue(CutAtLineFeeds(file.content, <<>>), data)
    /\ data = EmptyData => file.content = <<>>
    /\ data = pre

\* C12 as claimed: after a successful write the file holds exactly one line
\* `<key>: <value>` for every value of every key (N lines for a key of N
\* values, an empty file for an empty store) and nothing of what it held
\* before; the lines of one key stand in the order of its values; the store
\* in memory is unchanged.
C12_WriteOneLinePerValue ==
    (op = "write" /\ res = "ok") => WrittenAsClaimed

\* C12 amended: the same, for the stores whose keys and values hold no line
\* feed.
C12_WriteOneLinePerPlainValue ==
    (op = "write" /\ res = "ok"
     /\ \A k \in DOMAIN data :
            NoLineFeed(k) /\ \A i \in 1..Len(data[k]) : NoLineFeed(data[k][i]))
        => WrittenAsClaimed

\* C12 witness: a key of two different values, without line feeds, was
\* written in two lines.
C12_Witness ==
    /\ op = "write" /\ res = "ok"
    /\ \E k \in DOMAIN data :
          /\ Len(data[k]) = 2 /\ data[k][1] # data[k][2]
          /\ NoLineFeed(k) /\ NoLineFeed(data[k][1]) /\ NoLineFeed(data[k][2])
    /\ Len(CutAtLineFeeds(file.content, <<>>)) = 2

====
